---- MODULE Spec2Model ----
(***************************************************************************)
(* Model of pkg/matcher/macaddr of mosdns-x: the static MAC address set    *)
(* (Matcher), the reloadable cell (DynamicMatcher), the matcher group      *)
(* (LocalMatcherGroup) and the provider-backed construction                *)
(* (BatchLoadMacProvider).                                                 *)
(*                                                                         *)
(* A string is a sequence of one-character strings, a net.HardwareAddr a   *)
(* sequence of bytes (0..255), a [6]byte map key a sequence of 6 bytes.    *)
(* Matcher objects live in the heap `sets` (pointer = index, 0 = nil),     *)
(* DynamicMatcher objects in the heap `cells`.                             *)
(***************************************************************************)
EXTENDS Integers, Sequences, FiniteSets, TLC

VARIABLES
    sets,      \* heap of *Matcher: sets[p] is the macs map (a set of keys) of object p
    cells,     \* heap of *DynamicMatcher: cells[c] is the field d.m (0 = nil, else a *Matcher)
    mg,        \* the *LocalMatcherGroup: its slices g and closer (NoGroup = nil)
    prov,      \* dm: prov[tag] is the data provider tag, its bytes d and its listeners ls
    calls,     \* history: the closers invoked, each with the Close call that invoked it
    cpc,       \* where Close is in its loop: 0 = not running, i = about to reach closer i
    nclose,    \* history: the number of Close calls begun
    rw,        \* the sync.RWMutex d.l of cells[1]
    pc,        \* pc[p]: where goroutine p is in the method it is running
    loc,       \* loc[p]: the arguments and local variables of that call
    installed, \* history: the pointers stored into cells[1].m, in the order of the stores
    ncalls,    \* history: the number of calls goroutines have begun
    succ,      \* history: the pointers whose Update has returned nil
    added,     \* history: the patterns for which Matcher.Add returned nil on sets[1]
    ret        \* the last completed call and what it returned

vars == <<sets, cells, mg, prov, calls, cpc, nclose, rw, pc, loc, installed, ncalls, succ, added, ret>>

\* the state of a matcher group and of the data providers
grpVars == <<mg, prov, calls, cpc, nclose>>

\* the state of the goroutines that call into one DynamicMatcher
cellVars == <<cells, rw, pc, loc, installed, ncalls, succ>>

\* LET v == e IN F(v), with e evaluated once however often F uses v
Let(e, F(_)) == CHOOSE y \in {F(v) : v \in {e}} : TRUE

(***************************************************************************)
(* Strings                                                                 *)
(***************************************************************************)

\* len(mac) != 6 in Matcher.Match, len(hwAddr) != 6 in Matcher.Add, [6]byte
MacLen == 6

\* the zero byte that ParseMAC hands to xtoi2 for a two-character slice
NulByte == "NUL"

\* unicode.IsSpace restricted to the characters of the model's inputs
IsSpace(c) == c \in {" ", "\t", "\n", "\r"}

\* value of one hexadecimal digit as xtoi reads it, -1 for any other byte
DigitVal(c) ==
    CASE c = "0" -> 0  [] c = "1" -> 1  [] c = "2" -> 2  [] c = "3" -> 3
      [] c = "4" -> 4  [] c = "5" -> 5  [] c = "6" -> 6  [] c = "7" -> 7
      [] c = "8" -> 8  [] c = "9" -> 9
      [] c = "a" -> 10 [] c = "b" -> 11 [] c = "c" -> 12
      [] c = "d" -> 13 [] c = "e" -> 14 [] c = "f" -> 15
      [] c = "A" -> 10 [] c = "B" -> 11 [] c = "C" -> 12
      [] c = "D" -> 13 [] c = "E" -> 14 [] c = "F" -> 15
      [] OTHER -> -1

\* net.xtoi: the hexadecimal prefix of s; i is the number of bytes consumed
RECURSIVE xtoiFrom(_, _, _)
xtoiFrom(s, i, n) ==
    IF i >= Len(s) \/ DigitVal(s[i + 1]) < 0
    THEN IF i = 0 THEN [n |-> 0, i |-> 0, ok |-> FALSE]
                  ELSE [n |-> n, i |-> i, ok |-> TRUE]
    ELSE LET n2 == n * 16 + DigitVal(s[i + 1])
         IN  IF n2 >= 16777215
             THEN [n |-> 0, i |-> i, ok |-> FALSE]
             ELSE xtoiFrom(s, i + 1, n2)

xtoi(s) == xtoiFrom(s, 0, 0)

\* net.xtoi2: the first two bytes of s as one hexadecimal byte; when s goes
\* on, its third byte has to be the separator e
xtoi2(s, e) ==
    IF Len(s) > 2 /\ s[3] # e
    THEN [n |-> 0, ok |-> FALSE]
    ELSE Let(xtoi(SubSeq(s, 1, 2)),
             LAMBDA r : [n |-> r.n % 256, ok |-> r.ok /\ r.i = 2])

ParseMACError == [ok |-> FALSE, hw |-> <<>>]

\* the colon or hyphen form of net.ParseMAC: xx:xx:xx:xx:xx:xx (6, 8 or 20 bytes)
ParseMACColon(s) ==
    IF (Len(s) + 1) % 3 # 0 THEN ParseMACError
    ELSE LET n == (Len(s) + 1) \div 3
             b == [i \in 1..n |-> xtoi2(SubSeq(s, 3 * (i - 1) + 1, Len(s)), s[3])]
         IN  IF n \notin {6, 8, 20} \/ (\E i \in 1..n : ~b[i].ok)
             THEN ParseMACError
             ELSE [ok |-> TRUE, hw |-> [i \in 1..n |-> b[i].n]]

\* the dot form of net.ParseMAC: xxxx.xxxx.xxxx (6, 8 or 20 bytes)
ParseMACDot(s) ==
    IF (Len(s) + 1) % 5 # 0 THEN ParseMACError
    ELSE LET n == (2 * (Len(s) + 1)) \div 5
             hi == [k \in 1..(n \div 2) |->
                       xtoi2(SubSeq(s, 5 * (k - 1) + 1, 5 * (k - 1) + 2), NulByte)]
             lo == [k \in 1..(n \div 2) |->
                       xtoi2(SubSeq(s, 5 * (k - 1) + 3, Len(s)), s[5])]
         IN  IF n \notin {6, 8, 20}
                \/ (\E k \in 1..(n \div 2) : ~hi[k].ok \/ ~lo[k].ok)
             THEN ParseMACError
             ELSE [ok |-> TRUE,
                   hw |-> [i \in 1..n |-> IF i % 2 = 1 THEN hi[(i + 1) \div 2].n
                                                       ELSE lo[i \div 2].n]]

\* net.ParseMAC as Matcher.Add calls it
ParseMAC(s) ==
    IF Len(s) < 14 THEN ParseMACError
    ELSE IF s[3] = ":" \/ s[3] = "-" THEN ParseMACColon(s)
    ELSE IF s[5] = "." THEN ParseMACDot(s)
    ELSE ParseMACError

\* strings.TrimSpace
RECURSIVE TrimLeft(_)
TrimLeft(s) ==
    IF s # <<>> /\ IsSpace(Head(s)) THEN Let(Tail(s), LAMBDA t : TrimLeft(t)) ELSE s

RECURSIVE TrimRight(_)
TrimRight(s) ==
    IF s # <<>> /\ IsSpace(s[Len(s)])
    THEN Let(SubSeq(s, 1, Len(s) - 1), LAMBDA t : TrimRight(t))
    ELSE s

TrimSpace(s) == Let(TrimLeft(s), LAMBDA t : TrimRight(t))

(***************************************************************************)
(* Static Set: Matcher (macaddr.go)                                        *)
(***************************************************************************)

\* var key [6]byte; copy(key[:], mac): the first 6 bytes, zero-filled
CopyKey(mac) == [i \in 1..MacLen |-> IF i <= Len(mac) THEN mac[i] ELSE 0]

\* NewMatcher: an empty map
NewMatcherMacs == {}

\* a bug Matcher.Match could have: no length test before the copy into the
\* [6]byte key, which cuts a longer address and pads a shorter one with 0
MatcherMatchNoLenCheck(macs, mac) == CopyKey(mac) \in macs

\* Matcher.Match on the map macs
MatcherMatch(macs, mac) ==
    IF Len(mac) # MacLen THEN FALSE ELSE CopyKey(mac) \in macs

\* Matcher.Len
MatcherLen(macs) == Cardinality(macs)

\* a bug Matcher.add could have: the map is rebuilt with the new key alone
MatcherAddKeyReplace(macs, mac) == {CopyKey(mac)}

\* Matcher.add
MatcherAddKey(macs, mac) == macs \cup {CopyKey(mac)}

\* a bug Matcher.Add could have: an address already in the map is an error
MatcherAddRejectsDuplicate(macs, pattern) ==
    Let(ParseMAC(pattern), LAMBDA p :
        IF ~p.ok THEN [err |-> "invalid MAC address", macs |-> macs]
        ELSE IF Len(p.hw) # MacLen
             THEN [err |-> "MAC address must be 6 bytes", macs |-> macs]
        ELSE IF CopyKey(p.hw) \in macs THEN [err |-> "duplicate", macs |-> macs]
        ELSE [err |-> "", macs |-> MatcherAddKey(macs, p.hw)])

\* Matcher.Add: the error ("" for nil) and the map after the call
MatcherAdd(macs, pattern) ==
    Let(ParseMAC(pattern), LAMBDA p :
        IF ~p.ok THEN [err |-> "invalid MAC address", macs |-> macs]
        ELSE IF Len(p.hw) # MacLen
             THEN [err |-> "MAC address must be 6 bytes", macs |-> macs]
        ELSE [err |-> "", macs |-> MatcherAddKey(macs, p.hw)])

\* a bug Load could have: the error of Add is dropped
LoadDropsError(macs, s) ==
    Let(TrimSpace(s), LAMBDA t :
        IF Len(t) = 0 THEN [err |-> "", macs |-> macs]
        ELSE [err |-> "", macs |-> MatcherAdd(macs, t).macs])

\* Load: trims, ignores the empty string, otherwise Add
Load(macs, s) ==
    Let(TrimSpace(s), LAMBDA t :
        IF Len(t) = 0 THEN [err |-> "", macs |-> macs] ELSE MatcherAdd(macs, t))

(***************************************************************************)
(* Text batches: LoadFromTextReader, ParseTextMacFile (load_helper.go)     *)
(***************************************************************************)

\* bufio.MaxScanTokenSize, the largest buffer bufio.NewScanner grows to, and
\* bufio.ErrTooLong
MaxScanTokenSize == 65536
ErrTooLong == "bufio.Scanner: token too long"

\* the index of the first "\n" of data at or after i, 0 when there is none
IndexNewline(data, i) ==
    Let({j \in i..Len(data) : data[j] = "\n"}, LAMBDA at :
        IF at = {} THEN 0 ELSE CHOOSE j \in at : \A k \in at : j <= k)

\* bufio.dropCR: a line without its trailing carriage return
DropCR(data) ==
    IF Len(data) > 0 /\ data[Len(data)] = "\r"
    THEN SubSeq(data, 1, Len(data) - 1) ELSE data

\* the tokens bufio.Scanner yields with bufio.ScanLines (its default split
\* function), and scanner.Err() when Scan has returned false: the text cut
\* at each "\n"; a text that ends in "\n" has no empty last line. Scan gives
\* up with ErrTooLong when the buffer is full (MaxScanTokenSize bytes) and
\* holds neither a "\n" nor the end of the text.
RECURSIVE ScanLines(_)
ScanLines(data) ==
    IF Len(data) = 0 THEN [lines |-> <<>>, err |-> ""]
    ELSE Let(IndexNewline(data, 1), LAMBDA i :
             IF i > 0 /\ i <= MaxScanTokenSize
             THEN Let(ScanLines(SubSeq(data, i + 1, Len(data))), LAMBDA rest :
                      [lines |-> <<DropCR(SubSeq(data, 1, i - 1))>> \o rest.lines,
                       err |-> rest.err])
             ELSE IF i = 0 /\ Len(data) < MaxScanTokenSize
             THEN [lines |-> <<DropCR(data)>>, err |-> ""]
             ELSE [lines |-> <<>>, err |-> ErrTooLong])

\* the loop of LoadFromTextReader from line lineCounter + 1 on: the error, the
\* line it is reported for (0 for none) and the map of m when the loop ends
RECURSIVE LoadLines(_, _, _)
LoadLines(macs, lines, lineCounter) ==
    IF lineCounter >= Len(lines) THEN [err |-> "", line |-> 0, macs |-> macs]
    ELSE Let(lineCounter + 1, LAMBDA n :
         Let(TrimSpace(lines[n]), LAMBDA t :
             IF Len(t) = 0 \/ t[1] = "#"
             THEN LoadLines(macs, lines, n)
             ELSE Let(Load(macs, t), LAMBDA r :
                      IF r.err # ""
                      THEN [err |-> r.err, line |-> n, macs |-> r.macs]
                      ELSE LoadLines(r.macs, lines, n))))

\* LoadFromTextReader on the bytes of the reader: the loop over the lines
\* Scan yields, then return scanner.Err()
LoadFromTextReader(macs, in) ==
    Let(ScanLines(in), LAMBDA sc :
    Let(LoadLines(macs, sc.lines, 0), LAMBDA r :
        IF r.err # "" THEN r ELSE [err |-> sc.err, line |-> 0, macs |-> r.macs]))

\* ParseTextMacFile: ok is err == nil; on an error the matcher returned is
\* nil and macs stands for nothing
ParseTextMacFile(in) ==
    Let(LoadFromTextReader(NewMatcherMacs, in), LAMBDA r :
        IF r.err # ""
        THEN [ok |-> FALSE, err |-> r.err, line |-> r.line, macs |-> {}]
        ELSE [ok |-> TRUE, err |-> "", line |-> 0, macs |-> r.macs])

(***************************************************************************)
(* Inputs                                                                  *)
(***************************************************************************)

\* the strings of parts joined by the string sep
RECURSIVE Join(_, _)
Join(parts, sep) ==
    IF parts = <<>> THEN <<>>
    ELSE IF Len(parts) = 1 THEN parts[1]
    ELSE parts[1] \o sep \o Join(Tail(parts), sep)

LitLower == Join(<< <<"a","a">>, <<"b","b">>, <<"c","c">>, <<"d","d">>, <<"e","e">>, <<"f","f">> >>, <<":">>)
LitUpper == Join(<< <<"A","A">>, <<"B","B">>, <<"C","C">>, <<"D","D">>, <<"E","E">>, <<"F","F">> >>, <<":">>)
LitMixed == Join(<< <<"A","a">>, <<"B","b">>, <<"C","c">>, <<"D","d">>, <<"E","e">>, <<"F","f">> >>, <<":">>)
LitHyphen == Join(<< <<"a","a">>, <<"b","b">>, <<"c","c">>, <<"d","d">>, <<"e","e">>, <<"f","f">> >>, <<"-">>)
LitDot == Join(<< <<"a","a","B","B">>, <<"c","c","D","D">>, <<"e","e","F","F">> >>, <<".">>)
Lit0055 == Join(<< <<"0","0">>, <<"1","1">>, <<"2","2">>, <<"3","3">>, <<"4","4">>, <<"5","5">> >>, <<":">>)
Lit0000 == Join(<< <<"0","0">>, <<"1","1">>, <<"2","2">>, <<"3","3">>, <<"4","4">>, <<"0","0">> >>, <<":">>)
Lit66bb == Join(<< <<"6","6">>, <<"7","7">>, <<"8","8">>, <<"9","9">>, <<"a","a">>, <<"B","B">> >>, <<":">>)
\* 5 bytes ("00:11:22:33:44"), 8 bytes (EUI-64), a non-hexadecimal digit,
\* mixed separators, one-digit bytes, surrounding white space
Lit5Bytes == Join(<< <<"0","0">>, <<"1","1">>, <<"2","2">>, <<"3","3">>, <<"4","4">> >>, <<":">>)
Lit8Bytes == Join(<< <<"0","0">>, <<"1","1">>, <<"2","2">>, <<"3","3">>, <<"4","4">>, <<"5","5">>, <<"6","6">>, <<"7","7">> >>, <<":">>)
LitBadHex == Join(<< <<"g","g">>, <<"b","b">>, <<"c","c">>, <<"d","d">>, <<"e","e">>, <<"f","f">> >>, <<":">>)
LitMixedSep == Join(<< <<"a","a">>, <<"b","b">>, <<"c","c">> >>, <<":">>) \o <<"-">>
                 \o Join(<< <<"d","d">>, <<"e","e">>, <<"f","f">> >>, <<":">>)
LitPadded == <<" ">> \o LitLower \o <<" ", "\t">>

ValidPatterns == {LitLower, LitUpper, LitMixed, LitHyphen, LitDot, Lit0055, Lit0000, Lit66bb}
Patterns == ValidPatterns \cup {Lit5Bytes, Lit8Bytes, LitBadHex, LitMixedSep, LitPadded, <<>>}

\* hardware addresses handed to Match that no 6-byte literal parses to
Addr5 == <<0, 17, 34, 51, 68>>
\* the addresses the valid literals denote, written out by hand
AddrAF == <<170, 187, 204, 221, 238, 255>>
Addr0055 == <<0, 17, 34, 51, 68, 85>>
Addr0000 == <<0, 17, 34, 51, 68, 0>>
Addr66bb == <<102, 119, 136, 153, 170, 187>>
RawAddrs == {<<>>, Addr5, Addr5 \o <<0, 0>>, Addr5 \o <<85, 102, 119>>,
             <<102, 119, 136, 153, 170, 187>>, <<1, 2, 3, 4, 5, 6>>}

\* text batches handed to Update: one address, another address, the batch
\* "# comment\n\n00:11:22:33:44:55\n", two addresses in CRLF lines with white
\* space and no final newline, the empty text, a first line of 5 bytes, and a
\* malformed third line after a valid first one
TextA == LitLower \o <<"\n">>
TextB == Lit0055 \o <<"\n">>
TextComment == <<"#", " ", "c", "o", "m", "m", "e", "n", "t", "\n", "\n">> \o Lit0055 \o <<"\n">>
TextAB == <<" ">> \o LitHyphen \o <<"\t", "\r", "\n">> \o Lit66bb
TextEmpty == <<>>
TextBad5 == Lit5Bytes \o <<"\n">>
TextBadLate == LitUpper \o <<"\n", "#", "x", "\n">> \o LitBadHex \o <<"\n">>
Texts == {TextA, TextB, TextComment, TextAB, TextEmpty, TextBad5, TextBadLate}

\* the text batches handed to Update in SpecCell
CellTexts == {TextA, TextB, TextBadLate}

\* hardware addresses handed to Match on a cell or a group
QueryAddrs == {AddrAF, Addr0055, Addr5}

NoRet == [op |-> "none", lit |-> <<>>, mac |-> <<>>, err |-> "", val |-> 0, pre |-> {},
          m |-> 0]

\* goroutines
NProcs == 2
Procs == 1..NProcs

NoLoc == [op |-> "none", mac |-> <<>>, b |-> <<>>, m |-> 0, snap |-> {}]
\* a nil *LocalMatcherGroup, and a DataManager without providers
NoGroup == [nil |-> TRUE, g |-> <<>>, closer |-> <<>>]
NoProviders == <<>>
RWUnlocked == [readers |-> {}, w |-> 0, active |-> FALSE]

(***************************************************************************)
(* SpecSet: one Static Set (sets[1]) and the calls of its methods          *)
(***************************************************************************)

InitSet ==
    /\ sets = <<NewMatcherMacs>>
    /\ cells = <<>>
    /\ mg = NoGroup
    /\ prov = NoProviders
    /\ calls = <<>>
    /\ cpc = 0
    /\ nclose = 0
    /\ rw = RWUnlocked
    /\ pc = [p \in Procs |-> "idle"]
    /\ loc = [p \in Procs |-> NoLoc]
    /\ installed = <<>>
    /\ ncalls = 0
    /\ succ = {}
    /\ added = {}
    /\ ret = NoRet

\* m.Add(pattern, struct{}{})
SetAdd(pattern) ==
    \E r \in {MatcherAdd(sets[1], pattern)} :
        /\ sets' = [sets EXCEPT ![1] = r.macs]
        /\ added' = IF r.err = "" THEN added \cup {pattern} ELSE added
        /\ ret' = [NoRet EXCEPT !.op = "Add", !.lit = pattern, !.err = r.err,
                                !.pre = sets[1]]
        /\ UNCHANGED <<grpVars, cellVars>>

\* mac, err := net.ParseMAC(lit); m.Match(mac), as the tests query the set
SetMatchParsed(lit) ==
    /\ \E r \in {ParseMAC(lit)} :
          /\ r.ok
          /\ ret' = [NoRet EXCEPT !.op = "Match", !.lit = lit, !.mac = r.hw,
                                  !.val = MatcherMatch(sets[1], r.hw),
                                  !.pre = sets[1]]
    /\ UNCHANGED <<grpVars, sets, added, cellVars>>

\* m.Match(mac) on a hardware address of any length
SetMatch(mac) ==
    /\ ret' = [NoRet EXCEPT !.op = "Match", !.mac = mac,
                            !.val = MatcherMatch(sets[1], mac), !.pre = sets[1]]
    /\ UNCHANGED <<grpVars, sets, added, cellVars>>

\* m.Len()
SetLen ==
    /\ ret' = [NoRet EXCEPT !.op = "Len", !.val = MatcherLen(sets[1]), !.pre = sets[1]]
    /\ UNCHANGED <<grpVars, sets, added, cellVars>>

\* m.Close()
SetClose ==
    /\ ret' = [NoRet EXCEPT !.op = "Close", !.pre = sets[1]]
    /\ UNCHANGED <<grpVars, sets, added, cellVars>>

NextSet ==
    \/ \E pattern \in Patterns : SetAdd(pattern)
    \/ \E lit \in Patterns : SetMatchParsed(lit)
    \/ \E mac \in RawAddrs : SetMatch(mac)
    \/ SetLen
    \/ SetClose

SpecSet == InitSet /\ [][NextSet]_vars

(***************************************************************************)
(* Claims about the Static Set (SpecSet)                                   *)
(***************************************************************************)

\* the address each valid literal of the inputs denotes
Denoted(lit) ==
    CASE lit \in {LitLower, LitUpper, LitMixed, LitHyphen, LitDot} -> AddrAF
      [] lit = Lit0055 -> Addr0055
      [] lit = Lit0000 -> Addr0000
      [] lit = Lit66bb -> Addr66bb
      [] OTHER -> <<>>

\* s with the letters A..F in lower case
FoldCase(s) ==
    [i \in 1..Len(s) |->
        CASE s[i] = "A" -> "a" [] s[i] = "B" -> "b" [] s[i] = "C" -> "c"
          [] s[i] = "D" -> "d" [] s[i] = "E" -> "e" [] s[i] = "F" -> "f"
          [] OTHER -> s[i]]

\* C9: after a successful Add(L) the address parsed from any literal that
\* differs from L in letter case only matches (in the current set, and in the
\* result of the Match call just made); a Match that returned true was given
\* an address some successfully added literal denotes.
C9_AddThenMatchAnyCase ==
    /\ \A l \in added : \A q \in ValidPatterns :
          FoldCase(q) = FoldCase(l) => MatcherMatch(sets[1], ParseMAC(q).hw)
    /\ (ret.op = "Match" /\ ret.lit # <<>>
          /\ (\E l \in added : FoldCase(l) = FoldCase(ret.lit)))
       => ret.val = TRUE
    /\ (ret.op = "Match" /\ ret.val = TRUE)
       => \E l \in added : Denoted(l) = ret.mac

\* C9 witness: the lower-case literal was added, the query was parsed from the
\* upper-case one, and Match returned true
C9_Witness ==
    /\ added = {LitLower}
    /\ ret.op = "Match" /\ ret.lit = LitUpper /\ ret.val = TRUE

\* C10: an Add of a literal whose address is already in the set returns nil
\* and leaves the set (Len and every membership) as it was; Len is the number
\* of distinct addresses successfully added; a failed Add leaves the set as
\* it was.
C10_AddIdempotent ==
    /\ (ret.op = "Add" /\ Denoted(ret.lit) \in ret.pre)
       => (ret.err = "" /\ sets[1] = ret.pre
           /\ MatcherLen(sets[1]) = MatcherLen(ret.pre))
    /\ MatcherLen(sets[1]) = Cardinality({Denoted(l) : l \in added})
    /\ (ret.op = "Add" /\ ret.err # "") => sets[1] = ret.pre

\* C10 witness: the same address added a second time, in another notation,
\* with another address in the set
C10_Witness ==
    /\ {LitLower, Lit0055} \subseteq added
    /\ ret.op = "Add" /\ ret.lit = LitDot /\ ret.err = ""
    /\ AddrAF \in ret.pre
    /\ MatcherLen(sets[1]) = 2

(***************************************************************************)
(* SpecCell: one Reloadable Cell (cells[1]) and the goroutines that call   *)
(* Match, Len, Close and Update on it                                      *)
(***************************************************************************)

\* successful parses in one behaviour (each allocates one Matcher)
MaxUpdates == 2

\* calls begun in one behaviour
MaxCalls == 3

\* NewDynamicMatcher(parserFunc), with parserFunc = ParseTextMacFile as in
\* BatchLoadMacProvider: d.m is nil
InitCell ==
    /\ sets = <<>>
    /\ cells = <<0>>
    /\ mg = NoGroup
    /\ prov = NoProviders
    /\ calls = <<>>
    /\ cpc = 0
    /\ nclose = 0
    /\ rw = RWUnlocked
    /\ pc = [p \in Procs |-> "idle"]
    /\ loc = [p \in Procs |-> NoLoc]
    /\ installed = <<>>
    /\ ncalls = 0
    /\ succ = {}
    /\ added = {}
    /\ ret = NoRet

\* a bug the nil test of DynamicMatcher.Match could have: no snapshot matches all
DynMatchResultNilMatches(m, mac) ==
    IF m = 0 THEN TRUE ELSE MatcherMatch(sets[m], mac)

\* DynamicMatcher.Match after the unlock: false for nil, else m.Match(mac)
DynMatchResult(m, mac) ==
    IF m = 0 THEN FALSE ELSE MatcherMatch(sets[m], mac)

\* DynamicMatcher.Len after the unlock: 0 for nil, else m.Len()
DynLenResult(m) ==
    IF m = 0 THEN 0 ELSE MatcherLen(sets[m])

\* DynamicMatcher.Close after the unlock: m.Close() is Matcher.Close, nil
DynCloseResult(m) == ""

\* a goroutine calls d.Match(mac)
CallMatch(p, mac) ==
    /\ pc[p] = "idle"
    /\ ncalls < MaxCalls
    /\ ncalls' = ncalls + 1
    /\ pc' = [pc EXCEPT ![p] = "rlock"]
    /\ loc' = [loc EXCEPT ![p] = [NoLoc EXCEPT !.op = "Match", !.mac = mac]]
    /\ UNCHANGED <<grpVars, sets, cells, rw, installed, succ, added, ret>>

\* a goroutine calls d.Len()
CallLen(p) ==
    /\ pc[p] = "idle"
    /\ ncalls < MaxCalls
    /\ ncalls' = ncalls + 1
    /\ pc' = [pc EXCEPT ![p] = "rlock"]
    /\ loc' = [loc EXCEPT ![p] = [NoLoc EXCEPT !.op = "Len"]]
    /\ UNCHANGED <<grpVars, sets, cells, rw, installed, succ, added, ret>>

\* a goroutine calls d.Close()
CallClose(p) ==
    /\ pc[p] = "idle"
    /\ ncalls < MaxCalls
    /\ ncalls' = ncalls + 1
    /\ pc' = [pc EXCEPT ![p] = "rlock"]
    /\ loc' = [loc EXCEPT ![p] = [NoLoc EXCEPT !.op = "Close"]]
    /\ UNCHANGED <<grpVars, sets, cells, rw, installed, succ, added, ret>>

\* d.l.RLock(): waits while a writer holds the lock or is waiting for it
RLock(p) ==
    /\ pc[p] = "rlock"
    /\ rw.w = 0
    /\ rw' = [rw EXCEPT !.readers = @ \cup {p}]
    /\ pc' = [pc EXCEPT ![p] = "read"]
    /\ UNCHANGED <<grpVars, ncalls, sets, cells, loc, installed, succ, added, ret>>

\* m := d.m (snap remembers what the snapshot held at this moment)
ReadM(p) ==
    /\ pc[p] = "read"
    /\ loc' = [loc EXCEPT ![p].m = cells[1],
                          ![p].snap = IF cells[1] = 0 THEN {} ELSE sets[cells[1]]]
    /\ pc' = [pc EXCEPT ![p] = "runlock"]
    /\ UNCHANGED <<grpVars, ncalls, sets, cells, rw, installed, succ, added, ret>>

\* a bug Match, Len and Close could have: defer d.l.RUnlock(), so that the
\* shared lock is still held during the call on the snapshot
RUnlockDeferred(p) ==
    /\ pc[p] = "runlock"
    /\ pc' = [pc EXCEPT ![p] = "deleg"]
    /\ UNCHANGED <<grpVars, ncalls, sets, cells, rw, loc, installed, succ, added, ret>>

\* d.l.RUnlock()
RUnlock(p) ==
    /\ pc[p] = "runlock"
    /\ rw' = [rw EXCEPT !.readers = @ \ {p}]
    /\ pc' = [pc EXCEPT ![p] = "deleg"]
    /\ UNCHANGED <<grpVars, ncalls, sets, cells, loc, installed, succ, added, ret>>

\* the rest of Match, Len or Close: the nil test and the call on the snapshot
Delegate(p) ==
    /\ pc[p] = "deleg"
    /\ ret' = [NoRet EXCEPT
                 !.op = loc[p].op, !.mac = loc[p].mac, !.m = loc[p].m,
                 !.pre = loc[p].snap,
                 !.val = CASE loc[p].op = "Match" -> DynMatchResult(loc[p].m, loc[p].mac)
                           [] loc[p].op = "Len" -> DynLenResult(loc[p].m)
                           [] OTHER -> 0,
                 !.err = DynCloseResult(loc[p].m)]
    /\ pc' = [pc EXCEPT ![p] = "idle"]
    /\ loc' = [loc EXCEPT ![p] = NoLoc]
    /\ UNCHANGED <<grpVars, ncalls, sets, cells, rw, installed, succ, added>>

\* a goroutine (the provider's notification) calls d.Update(b)
CallUpdate(p, b) ==
    /\ pc[p] = "idle"
    /\ ncalls < MaxCalls
    /\ ncalls' = ncalls + 1
    /\ Len(sets) + Cardinality({q \in Procs : pc[q] = "parse"}) < MaxUpdates
    /\ pc' = [pc EXCEPT ![p] = "parse"]
    /\ loc' = [loc EXCEPT ![p] = [NoLoc EXCEPT !.op = "Update", !.b = b]]
    /\ UNCHANGED <<grpVars, sets, cells, rw, installed, succ, added, ret>>

\* d.parserFunc, which is ParseTextMacFile, on each batch of CellTexts
CellParsed == [b \in CellTexts |-> ParseTextMacFile(b)]

\* a bug Update could have: the (nil) result is stored before err is looked at
UpdateParseStoresNil(p) ==
    /\ pc[p] = "parse"
    /\ \E r \in {CellParsed[loc[p].b]} :
           IF ~r.ok
           THEN /\ ret' = [NoRet EXCEPT !.op = "Update", !.err = r.err, !.val = r.line]
                /\ cells' = [cells EXCEPT ![1] = 0]
                /\ pc' = [pc EXCEPT ![p] = "idle"]
                /\ loc' = [loc EXCEPT ![p] = NoLoc]
                /\ UNCHANGED <<grpVars, ncalls, sets, rw, installed, succ, added>>
           ELSE /\ sets' = Append(sets, r.macs)
                /\ loc' = [loc EXCEPT ![p].m = Len(sets) + 1]
                /\ pc' = [pc EXCEPT ![p] = "lock"]
                /\ UNCHANGED <<grpVars, ncalls, cells, rw, installed, succ, added, ret>>

\* m, err := d.parserFunc(b); if err != nil { return err }
\* (only the Matcher that is returned is put on the heap)
UpdateParse(p) ==
    /\ pc[p] = "parse"
    /\ \E r \in {CellParsed[loc[p].b]} :
           IF ~r.ok
           THEN /\ ret' = [NoRet EXCEPT !.op = "Update", !.err = r.err, !.val = r.line]
                /\ pc' = [pc EXCEPT ![p] = "idle"]
                /\ loc' = [loc EXCEPT ![p] = NoLoc]
                /\ UNCHANGED <<grpVars, ncalls, sets, cells, rw, installed, succ, added>>
           ELSE /\ sets' = Append(sets, r.macs)
                /\ loc' = [loc EXCEPT ![p].m = Len(sets) + 1]
                /\ pc' = [pc EXCEPT ![p] = "lock"]
                /\ UNCHANGED <<grpVars, ncalls, cells, rw, installed, succ, added, ret>>

\* d.l.Lock(), first half: the writer's turn is taken, new readers now wait
LockAnnounce(p) ==
    /\ pc[p] = "lock"
    /\ rw.w = 0
    /\ rw' = [rw EXCEPT !.w = p]
    /\ pc' = [pc EXCEPT ![p] = "lockwait"]
    /\ UNCHANGED <<grpVars, ncalls, sets, cells, loc, installed, succ, added, ret>>

\* d.l.Lock(), second half: the readers that hold the lock have left
LockAcquire(p) ==
    /\ pc[p] = "lockwait"
    /\ rw.readers = {}
    /\ rw' = [rw EXCEPT !.active = TRUE]
    /\ pc' = [pc EXCEPT ![p] = "store"]
    /\ UNCHANGED <<grpVars, ncalls, sets, cells, loc, installed, succ, added, ret>>

\* a bug Update could have: the new addresses are added to the Matcher that is
\* installed, instead of the reference being replaced
UpdateStoreInPlace(p) ==
    /\ pc[p] = "store"
    /\ IF cells[1] = 0
       THEN cells' = [cells EXCEPT ![1] = loc[p].m] /\ sets' = sets
       ELSE cells' = cells /\ sets' = [sets EXCEPT ![cells[1]] = @ \cup sets[loc[p].m]]
    /\ installed' = Append(installed, loc[p].m)
    /\ pc' = [pc EXCEPT ![p] = "unlock"]
    /\ UNCHANGED <<grpVars, ncalls, rw, loc, succ, added, ret>>

\* a bug Update could have: the assignment d.m = m is missing
UpdateStoreMissing(p) ==
    /\ pc[p] = "store"
    /\ pc' = [pc EXCEPT ![p] = "unlock"]
    /\ UNCHANGED <<grpVars, ncalls, sets, cells, rw, loc, installed, succ, added, ret>>

\* a bug Update could have: d.m is set only while it is nil, so that the
\* first write wins
UpdateStoreKeepsFirst(p) ==
    /\ pc[p] = "store"
    /\ cells' = [cells EXCEPT ![1] = IF @ = 0 THEN loc[p].m ELSE @]
    /\ installed' = Append(installed, loc[p].m)
    /\ pc' = [pc EXCEPT ![p] = "unlock"]
    /\ UNCHANGED <<grpVars, ncalls, sets, rw, loc, succ, added, ret>>

\* d.m = m
UpdateStore(p) ==
    /\ pc[p] = "store"
    /\ cells' = [cells EXCEPT ![1] = loc[p].m]
    /\ installed' = Append(installed, loc[p].m)
    /\ pc' = [pc EXCEPT ![p] = "unlock"]
    /\ UNCHANGED <<grpVars, ncalls, sets, rw, loc, succ, added, ret>>

\* a bug Update could have: it returns without d.l.Unlock()
UpdateUnlockMissing(p) ==
    /\ pc[p] = "unlock"
    /\ succ' = succ \cup {loc[p].m}
    /\ ret' = [NoRet EXCEPT !.op = "Update", !.m = loc[p].m, !.pre = sets[loc[p].m]]
    /\ pc' = [pc EXCEPT ![p] = "idle"]
    /\ loc' = [loc EXCEPT ![p] = NoLoc]
    /\ UNCHANGED <<grpVars, ncalls, sets, cells, rw, installed, added>>

\* d.l.Unlock(); return nil
UpdateUnlock(p) ==
    /\ pc[p] = "unlock"
    /\ rw' = [rw EXCEPT !.w = 0, !.active = FALSE]
    /\ succ' = succ \cup {loc[p].m}
    /\ ret' = [NoRet EXCEPT !.op = "Update", !.m = loc[p].m, !.pre = sets[loc[p].m]]
    /\ pc' = [pc EXCEPT ![p] = "idle"]
    /\ loc' = [loc EXCEPT ![p] = NoLoc]
    /\ UNCHANGED <<grpVars, ncalls, sets, cells, installed, added>>

NextCell ==
    \E p \in Procs :
        \/ \E mac \in QueryAddrs : CallMatch(p, mac)
        \/ CallLen(p)
        \/ CallClose(p)
        \/ RLock(p)
        \/ ReadM(p)
        \/ RUnlock(p)
        \/ Delegate(p)
        \/ \E b \in CellTexts : CallUpdate(p, b)
        \/ UpdateParse(p)
        \/ LockAnnounce(p)
        \/ LockAcquire(p)
        \/ UpdateStore(p)
        \/ UpdateUnlock(p)

SpecCell == InitCell /\ [][NextCell]_vars

\* the steps of goroutine p inside a call
StepInCall(p) ==
    \/ RLock(p)
    \/ ReadM(p)
    \/ RUnlock(p)
    \/ Delegate(p)
    \/ UpdateParse(p)
    \/ LockAnnounce(p)
    \/ LockAcquire(p)
    \/ UpdateStore(p)
    \/ UpdateUnlock(p)

\* SpecCell with the scheduler's fairness: a goroutine that can go on inside
\* a call (it is runnable, or the lock it waits for stays free) does go on
SpecCellFair ==
    InitCell /\ [][NextCell]_vars /\ \A p \in Procs : WF_vars(StepInCall(p))

(***************************************************************************)
(* Matcher Group: LocalMatcherGroup, BatchLoad (load_helper.go)            *)
(***************************************************************************)

\* the loop of BatchLoad from b[i] on: m keeps what was added before an error
RECURSIVE BatchLoadFrom(_, _, _)
BatchLoadFrom(macs, b, i) ==
    IF i > Len(b) THEN [err |-> "", macs |-> macs]
    ELSE Let(Load(macs, b[i]), LAMBDA r :
             IF r.err # ""
             THEN [err |-> "failed to load data", macs |-> r.macs]
             ELSE BatchLoadFrom(r.macs, b, i + 1))

\* BatchLoad
BatchLoad(macs, b) == BatchLoadFrom(macs, b, 1)

\* mg := &LocalMatcherGroup{}
EmptyGroup == [nil |-> FALSE, g |-> <<>>, closer |-> <<>>]

\* the members of a group: *Matcher x, *DynamicMatcher c
SetMember(x) == [kind |-> "set", id |-> x]
CellMember(c) == [kind |-> "cell", id |-> c]

\* m.Match(mac) and m.Len() through the LocalMatcher interface, the methods
\* of a DynamicMatcher running without interruption
MemberMatch(mem, mac) ==
    IF mem.kind = "set" THEN MatcherMatch(sets[mem.id], mac)
    ELSE DynMatchResult(cells[mem.id], mac)

MemberLen(mem) ==
    IF mem.kind = "set" THEN MatcherLen(sets[mem.id])
    ELSE DynLenResult(cells[mem.id])

\* a bug the loop of LocalMatcherGroup.Match could have: it returns what the
\* first member says
RECURSIVE GroupMatchFirstOnly(_, _, _)
GroupMatchFirstOnly(g, i, mac) ==
    IF i > Len(g) THEN FALSE ELSE MemberMatch(g[i], mac)

\* the loop of LocalMatcherGroup.Match from member i on
RECURSIVE GroupMatchFrom(_, _, _)
GroupMatchFrom(g, i, mac) ==
    IF i > Len(g) THEN FALSE
    ELSE IF MemberMatch(g[i], mac) THEN TRUE
    ELSE GroupMatchFrom(g, i + 1, mac)

\* LocalMatcherGroup.Match
GroupMatch(g, mac) == GroupMatchFrom(g, 1, mac)

\* a bug the loop of LocalMatcherGroup.Len could have: s = m.Len() for
\* s += m.Len()
RECURSIVE GroupLenFromAssign(_, _, _)
GroupLenFromAssign(g, i, s) ==
    IF i > Len(g) THEN s ELSE GroupLenFromAssign(g, i + 1, MemberLen(g[i]))

\* the loop of LocalMatcherGroup.Len from member i on, s being the sum so far
RECURSIVE GroupLenFrom(_, _, _)
GroupLenFrom(g, i, s) ==
    IF i > Len(g) THEN s ELSE GroupLenFrom(g, i + 1, s + MemberLen(g[i]))

\* LocalMatcherGroup.Len
GroupLen(g) == GroupLenFrom(g, 1, 0)

\* a bug Append could have: append(mg.g[:0], nm)
GroupAppendReplace(grp, nm) == [grp EXCEPT !.g = <<nm>>]

\* LocalMatcherGroup.Append
GroupAppend(grp, nm) == [grp EXCEPT !.g = Append(@, nm)]

\* a bug AppendCloser could have: the result of append is not assigned
GroupAppendCloserNotStored(grp, f) == grp

\* LocalMatcherGroup.AppendCloser
GroupAppendCloser(grp, f) == [grp EXCEPT !.closer = Append(@, f)]

\* a closer: the closure func() { provider.DeleteListener(dmMatcher) } over
\* the provider and the cell, or any other func(), of which the model keeps
\* the identity k only (the tag <<>> names no provider)
DeleteCloser(tag, c) == [tag |-> tag, cell |-> c]
OpaqueCloser(k) == [tag |-> <<>>, cell |-> k]

\* a bug Update could have: the Matcher that is installed is emptied and
\* refilled, instead of a new one being stored
CellUpdateInPlace(h, c, b) ==
    Let(ParseTextMacFile(b), LAMBDA r :
        IF ~r.ok THEN [sets |-> h.sets, cells |-> h.cells, err |-> r.err]
        ELSE IF h.cells[c] # 0
        THEN [sets |-> [h.sets EXCEPT ![h.cells[c]] = r.macs], cells |-> h.cells,
              err |-> ""]
        ELSE [sets |-> Append(h.sets, r.macs),
              cells |-> [h.cells EXCEPT ![c] = Len(h.sets) + 1],
              err |-> ""])

\* d.Update(b) running without interruption on cell c of the heap h =
\* [sets, cells]: the heap after the call, and the error
CellUpdate(h, c, b) ==
    Let(ParseTextMacFile(b), LAMBDA r :
        IF ~r.ok THEN [sets |-> h.sets, cells |-> h.cells, err |-> r.err]
        ELSE [sets |-> Append(h.sets, r.macs),
              cells |-> [h.cells EXCEPT ![c] = Len(h.sets) + 1],
              err |-> ""])

(***************************************************************************)
(* Data providers (package data_provider) and BatchLoadMacProvider         *)
(***************************************************************************)

\* strings.HasPrefix, strings.TrimPrefix
HasPrefix(s, prefix) ==
    Len(s) >= Len(prefix) /\ SubSeq(s, 1, Len(prefix)) = prefix
TrimPrefix(s, prefix) ==
    IF HasPrefix(s, prefix) THEN SubSeq(s, Len(prefix) + 1, Len(s)) ELSE s

\* "provider:"
ProviderPrefix == <<"p", "r", "o", "v", "i", "d", "e", "r", ":">>

\* dm.GetDataProvider(tag) != nil
HasDataProvider(pv, tag) == tag \in DOMAIN pv

\* provider.LoadAndAddListener(l) on the state st: the initial load
\* l.Update(data) is made synchronously, and l is put on the listeners when
\* the load has worked
LoadAndAddListener(st, tag, c) ==
    Let(CellUpdate([sets |-> st.sets, cells |-> st.cells], c, st.prov[tag].d), LAMBDA u :
        IF u.err # "" THEN [st EXCEPT !.err = u.err]
        ELSE [st EXCEPT !.sets = u.sets, !.cells = u.cells,
                        !.prov[tag].ls = @ \cup {c}, !.err = ""])

\* provider.DeleteListener(l)
DeleteListener(pv, tag, c) == [pv EXCEPT ![tag].ls = @ \ {c}]

\* the loop of BatchLoadMacProvider from e[i] on. st is the state so far:
\* the heaps, the providers, the group mg under construction and err; static
\* is the pointer staticMatcher. An error return gives up mg (nil) and leaves
\* everything else as it is at that moment.
RECURSIVE BatchLoadMacProviderFrom(_, _, _, _)
BatchLoadMacProviderFrom(st, e, i, static) ==
    IF i > Len(e) THEN [st EXCEPT !.err = ""]
    ELSE IF HasPrefix(e[i], ProviderPrefix)
    THEN Let(TrimPrefix(e[i], ProviderPrefix), LAMBDA providerTag :
         IF ~HasDataProvider(st.prov, providerTag)
         THEN [st EXCEPT !.err = "cannot find provider", !.mg = NoGroup]
         ELSE Let(Len(st.cells) + 1, LAMBDA dmMatcher :
              Let(LoadAndAddListener([st EXCEPT !.cells = Append(@, 0)],
                                     providerTag, dmMatcher), LAMBDA r :
                  IF r.err # ""
                  THEN [r EXCEPT !.err = "failed to load data from provider",
                                 !.mg = NoGroup]
                  ELSE BatchLoadMacProviderFrom(
                           [r EXCEPT !.mg = GroupAppendCloser(
                                               GroupAppend(@, CellMember(dmMatcher)),
                                               DeleteCloser(providerTag, dmMatcher))],
                           e, i + 1, static))))
    ELSE Let(Load(st.sets[static], e[i]), LAMBDA r :
             IF r.err # ""
             THEN [st EXCEPT !.err = "failed to load data", !.mg = NoGroup]
             ELSE BatchLoadMacProviderFrom([st EXCEPT !.sets[static] = r.macs],
                                           e, i + 1, static))

\* BatchLoadMacProvider(e, dm) on the heaps h and the providers pv
BatchLoadMacProvider(h, pv, e) ==
    BatchLoadMacProviderFrom(
        [sets |-> Append(h.sets, NewMatcherMacs), cells |-> h.cells, prov |-> pv,
         mg |-> GroupAppend(EmptyGroup, SetMember(Len(h.sets) + 1)), err |-> ""],
        e, 1, Len(h.sets) + 1)

\* the provider's data changes to b: the provider hands b to the Update of
\* every listener (here one after the other, in the order of the cells)
RECURSIVE NotifyListeners(_, _, _)
NotifyListeners(h, ls, b) ==
    IF ls = {} THEN h
    ELSE Let(CHOOSE c \in ls : \A c2 \in ls : c <= c2, LAMBDA c :
         Let(CellUpdate(h, c, b), LAMBDA u :
             NotifyListeners([sets |-> u.sets, cells |-> u.cells], ls \ {c}, b)))

(***************************************************************************)
(* Claims about the Reloadable Cell (SpecCell)                             *)
(***************************************************************************)

\* what a Match or Len call that runs alone in the current state returns
MatchNow(mac) == DynMatchResult(cells[1], mac)
LenNow == DynLenResult(cells[1])

\* the sets the valid text batches of CellTexts stand for, written out by hand
WholeSnapshots == {{AddrAF}, {Addr0055}}

\* C1: the step in which an Update returns the producer's error changes
\* neither d.m nor any Matcher: a cell that held a snapshot still holds it,
\* and Match and Len answer every input as before.
C1_FailedUpdateKeepsSnapshot ==
    [][\A p \in Procs :
          (pc[p] = "parse" /\ pc'[p] = "idle")
          => /\ ret'.op = "Update" /\ ret'.err # ""
             /\ cells' = cells /\ sets' = sets
             /\ (cells[1] # 0 => cells'[1] # 0)
             /\ \A mac \in QueryAddrs : MatchNow(mac)' = MatchNow(mac)
             /\ LenNow' = LenNow]_vars

\* C1 witness: an Update has failed (at line 3 of its text) on a cell that
\* holds the snapshot {aa:bb:cc:dd:ee:ff} of an Update that succeeded
C1_Witness ==
    /\ ret.op = "Update" /\ ret.err # "" /\ ret.val = 3
    /\ succ # {}
    /\ cells[1] # 0 /\ sets[cells[1]] = {AddrAF}
    /\ MatchNow(AddrAF) /\ LenNow = 1

\* C2: d.m is nil or the pointer of the last store; every Matcher is the
\* whole set of one text batch, never a mix of two; a Match call returns
\* membership in the snapshot as it was when the call read d.m, whatever was
\* stored since; and at no moment do both or neither of A and B match a
\* populated cell.
C2_AtomicReload ==
    /\ cells[1] = IF installed = <<>> THEN 0 ELSE installed[Len(installed)]
    /\ \A x \in 1..Len(sets) : sets[x] \in WholeSnapshots
    /\ ret.op = "Match"
       => /\ ret.val = (ret.m # 0 /\ ret.mac \in ret.pre)
          /\ ret.m # 0 => (ret.pre \in WholeSnapshots /\ sets[ret.m] = ret.pre)
    /\ \A p \in Procs :
          (pc[p] \in {"runlock", "deleg"} /\ loc[p].m # 0)
          => sets[loc[p].m] = loc[p].snap
    /\ cells[1] # 0 => (MatchNow(AddrAF) # MatchNow(Addr0055))
    /\ (Len(installed) = 2 /\ sets[installed[1]] = {AddrAF}
          /\ sets[installed[2]] = {Addr0055})
       => (~MatchNow(AddrAF) /\ MatchNow(Addr0055))

\* C2 witness: a Match(A) that read the snapshot {A} returned true after the
\* second Update had stored {B}
C2_Witness ==
    /\ Len(installed) = 2
    /\ sets[installed[1]] = {AddrAF} /\ sets[installed[2]] = {Addr0055}
    /\ ret.op = "Match" /\ ret.mac = AddrAF /\ ret.val = TRUE
    /\ ret.m = installed[1]
    /\ cells[1] = installed[2]

\* C6: as long as no Update has returned nil, every Match has returned
\* false, every Len 0 and every Close nil, and every reader holds nil.
C6_EmptyCell ==
    succ = {}
    => /\ ret.op = "Match" => ret.val = FALSE
       /\ ret.op = "Len" => ret.val = 0
       /\ ret.op = "Close" => ret.err = ""
       /\ \A p \in Procs : pc[p] \in {"runlock", "deleg"} => loc[p].m = 0

\* C6 witness: Match has returned false for an address while no Update had
\* succeeded
C6_Witness ==
    /\ succ = {} /\ cells[1] = 0
    /\ ret.op = "Match" /\ ret.mac = AddrAF /\ ret.val = FALSE

\* where a goroutine is outside d.l: not in a call, in the producer, or in
\* the call on the snapshot
OutsideLock == {"idle", "parse", "deleg"}

\* C15: a goroutine in the producer or in the call on the snapshot holds
\* the lock in neither mode and has no writer's turn; the shared lock is
\* held only around m := d.m and the exclusive lock only around d.m = m;
\* and when all other goroutines are in the producer, in a call on a
\* snapshot or idle, RLock and Lock go through at once.
C15_LockOnlyAroundReference ==
    /\ \A p \in Procs :
          /\ pc[p] \in OutsideLock => (p \notin rw.readers /\ rw.w # p)
          /\ p \in rw.readers => pc[p] \in {"read", "runlock"}
          /\ rw.w = p => pc[p] \in {"lockwait", "store", "unlock"}
          /\ (rw.w = p /\ rw.active) => pc[p] \in {"store", "unlock"}
    /\ \A q \in Procs :
          (\A r \in Procs \ {q} : pc[r] \in OutsideLock)
          => /\ pc[q] = "rlock" => ENABLED RLock(q)
             /\ pc[q] = "lock" => ENABLED LockAnnounce(q)
             /\ pc[q] = "lockwait" => ENABLED LockAcquire(q)

\* C15 witness: one goroutine holds the shared lock while the other is in
\* the producer of an Update
C15_Witness ==
    /\ pc[1] = "parse"
    /\ pc[2] = "read" /\ rw.readers = {2} /\ rw.w = 0

\* C17: at most one Update is between Lock and Unlock; d.m changes only in
\* the store of the Update that holds the exclusive lock, to the Matcher
\* that Update has built; when an Update unlocks and returns, d.m is its
\* Matcher; so when all calls have returned d.m is the Matcher of the
\* Update that took the lock last, and it is always nil or the whole
\* snapshot of one Update.
C17_LastWriteWins ==
    /\ [](/\ \A p, q \in Procs :
                (pc[p] \in {"store", "unlock"} /\ pc[q] \in {"store", "unlock"}) => p = q
          /\ \A p \in Procs : pc[p] \in {"store", "unlock"} => (rw.w = p /\ rw.active)
          /\ cells[1] # 0 => (cells[1] \in 1..Len(sets) /\ sets[cells[1]] \in WholeSnapshots)
          /\ ((\A p \in Procs : pc[p] = "idle") /\ succ # {})
             => cells[1] = installed[Len(installed)])
    /\ [][/\ cells' # cells
             => \E p \in Procs : /\ pc[p] = "store" /\ rw.w = p /\ rw.active
                                  /\ cells' = [cells EXCEPT ![1] = loc[p].m]
          /\ \A p \in Procs :
                (pc[p] = "unlock" /\ pc'[p] = "idle")
                => (cells'[1] = loc[p].m /\ ret'.op = "Update" /\ ret'.err = "")]_vars

\* C17 witness: two Updates ran side by side; the one whose producer
\* finished first took the lock last, and when both had returned the cell
\* held its snapshot
C17_Witness ==
    /\ \A p \in Procs : pc[p] = "idle"
    /\ installed = <<2, 1>>
    /\ sets[1] # sets[2]
    /\ cells[1] = 1
    /\ succ = {1, 2}

\* the place of Matcher m in the order in which the Updates stored, which is
\* the order in which they took the exclusive lock: 0 for nil, and past the
\* end for a Matcher that was never stored
StoreOrder(m) ==
    IF m = 0 THEN 0
    ELSE IF \E i \in 1..Len(installed) : installed[i] = m
    THEN CHOOSE i \in 1..Len(installed) : installed[i] = m
    ELSE Len(installed) + 1

\* C20: the stores only add to the end of their order; and what a reader
\* reads in m := d.m is not before the snapshot of any Update that has
\* returned nil, nor before what any Match or Len call that has returned had
\* read.
C20_SnapshotsNeverGoBack ==
    [][/\ Len(installed') >= Len(installed)
       /\ SubSeq(installed', 1, Len(installed)) = installed
       /\ \A p \in Procs :
             (pc[p] = "read" /\ pc'[p] = "runlock")
             => /\ \A u \in succ : StoreOrder(loc'[p].m) >= StoreOrder(u)
                /\ ret.op \in {"Match", "Len"}
                   => StoreOrder(loc'[p].m) >= StoreOrder(ret.m)]_vars

\* C20 witness: a reader has read the snapshot of the second of two Updates
\* that had both returned nil
C20_Witness ==
    /\ Len(installed) = 2 /\ succ = {installed[1], installed[2]}
    /\ pc[1] = "runlock" /\ loc[1].op = "Match"
    /\ loc[1].m = installed[2]

\* C16: whenever some goroutine is inside a call, some goroutine inside a
\* call can take its next step; when no goroutine is inside a call the lock
\* is free; and every call that was started returns.
C16_CallsComplete ==
    /\ [](((\E p \in Procs : pc[p] # "idle") => (\E p \in Procs : ENABLED StepInCall(p)))
           /\ ((\A p \in Procs : pc[p] = "idle") => rw = RWUnlocked))
    /\ \A p \in Procs : (pc[p] # "idle") ~> (pc[p] = "idle")

\* C16 witness: a reader waits in RLock while a writer, whose producer has
\* succeeded, holds the exclusive lock
C16_Witness ==
    /\ pc[1] = "rlock"
    /\ pc[2] = "store" /\ rw.w = 2 /\ rw.active

(***************************************************************************)
(* SpecGroup: one Matcher Group built through Append from Static Sets and  *)
(* Reloadable Cells, and its Match and Len                                 *)
(***************************************************************************)

\* Matchers on the heap, cells, members of the group
MaxSets == 2
MaxCells == 1
MaxMembers == 2

\* closers of a group, and calls of its Close
MaxClosers == 3
MaxClose == 2

\* the string lists handed to BatchLoad, the last one with a malformed entry
StaticLists == {<<Lit0055, LitPadded, <<" ">> >>, <<Lit0000, Lit5Bytes>>}

\* the text batches handed to Update
GroupTexts == {TextB, TextAB, TextBad5}

\* the hardware addresses handed to the group's Match
GroupQueries == {AddrAF, Addr66bb, Addr5, Addr5 \o <<85, 102, 119>>}

InitGroup ==
    /\ sets = <<>>
    /\ cells = <<>>
    /\ mg = EmptyGroup
    /\ prov = NoProviders
    /\ calls = <<>>
    /\ cpc = 0
    /\ nclose = 0
    /\ rw = RWUnlocked
    /\ pc = [p \in Procs |-> "idle"]
    /\ loc = [p \in Procs |-> NoLoc]
    /\ installed = <<>>
    /\ ncalls = 0
    /\ succ = {}
    /\ added = {}
    /\ ret = NoRet

\* m := NewMatcher(); err := BatchLoad(m, b)
GrpBatchLoad(b) ==
    /\ Len(sets) < MaxSets
    /\ \E r \in {BatchLoad(NewMatcherMacs, b)} :
          /\ sets' = Append(sets, r.macs)
          /\ ret' = [NoRet EXCEPT !.op = "BatchLoad", !.err = r.err]
    /\ UNCHANGED <<cells, grpVars, rw, pc, loc, installed, ncalls, succ, added>>

\* d := NewDynamicMatcher(parseFunc)
GrpNewDynamicMatcher ==
    /\ Len(cells) < MaxCells
    /\ cells' = Append(cells, 0)
    /\ ret' = [NoRet EXCEPT !.op = "NewDynamicMatcher"]
    /\ UNCHANGED <<sets, grpVars, rw, pc, loc, installed, ncalls, succ, added>>

\* d.Update(b) on cell c
GrpUpdate(c, b) ==
    /\ Len(sets) < MaxSets
    /\ \E r \in {CellUpdate([sets |-> sets, cells |-> cells], c, b)} :
          /\ sets' = r.sets
          /\ cells' = r.cells
          /\ ret' = [NoRet EXCEPT !.op = "Update", !.err = r.err]
    /\ UNCHANGED <<grpVars, rw, pc, loc, installed, ncalls, succ, added>>

\* mg.Append(nm), not while Close ranges over the group
GrpAppend(nm) ==
    /\ cpc = 0
    /\ Len(mg.g) < MaxMembers
    /\ mg' = GroupAppend(mg, nm)
    /\ ret' = [NoRet EXCEPT !.op = "Append"]
    /\ UNCHANGED <<sets, cells, prov, calls, cpc, nclose, rw, pc, loc, installed,
                   ncalls, succ, added>>

\* mg.AppendCloser(f), not while Close ranges over the closers
GrpAppendCloser(f) ==
    /\ ~mg.nil
    /\ cpc = 0
    /\ Len(mg.closer) < MaxClosers
    /\ mg' = GroupAppendCloser(mg, f)
    /\ ret' = [NoRet EXCEPT !.op = "AppendCloser"]
    /\ UNCHANGED <<sets, cells, prov, calls, cpc, nclose, rw, pc, loc, installed,
                   ncalls, succ, added>>

\* mg.Match(mac), also while Close is running
GrpMatch(mac) ==
    /\ ~mg.nil
    /\ ret' = [NoRet EXCEPT !.op = "GroupMatch", !.mac = mac,
                            !.val = GroupMatch(mg.g, mac)]
    /\ UNCHANGED <<sets, cells, grpVars, rw, pc, loc, installed, ncalls, succ, added>>

\* mg.Len(), also while Close is running
GrpLen ==
    /\ ~mg.nil
    /\ ret' = [NoRet EXCEPT !.op = "GroupLen", !.val = GroupLen(mg.g)]
    /\ UNCHANGED <<sets, cells, grpVars, rw, pc, loc, installed, ncalls, succ, added>>

\* mg.Close() is called: the range loop starts
CloseBegin ==
    /\ ~mg.nil
    /\ cpc = 0
    /\ nclose < MaxClose
    /\ cpc' = 1
    /\ nclose' = nclose + 1
    /\ ret' = [NoRet EXCEPT !.op = "CloseBegin"]
    /\ UNCHANGED <<sets, cells, mg, prov, calls, rw, pc, loc, installed, ncalls,
                   succ, added>>

\* a bug the loop of Close could have: it stops at a closer that failed
CloseInvokeStopsOnFailure ==
    /\ cpc >= 1 /\ cpc <= Len(mg.closer)
    /\ LET f == mg.closer[cpc]
       IN  /\ \E ok \in (IF f.tag = <<>> THEN BOOLEAN ELSE {f.cell \in prov[f.tag].ls}) :
                /\ calls' = Append(calls, [call |-> nclose, i |-> cpc, f |-> f, ok |-> ok])
                /\ cpc' = IF ok THEN cpc + 1 ELSE Len(mg.closer) + 1
           /\ prov' = IF f.tag = <<>> THEN prov ELSE DeleteListener(prov, f.tag, f.cell)
    /\ UNCHANGED <<sets, cells, mg, nclose, rw, pc, loc, installed, ncalls, succ,
                   added, ret>>

\* one turn of the loop of Close: f() for the closer the loop has reached. A
\* DeleteListener closer takes the cell off the provider's listeners, and ok
\* tells whether it was on them; of any other func() the call is recorded,
\* and whether its side effect worked. f() returns nothing: Close has no way
\* to learn ok.
CloseInvoke ==
    /\ cpc >= 1 /\ cpc <= Len(mg.closer)
    /\ LET f == mg.closer[cpc]
       IN  /\ \E ok \in (IF f.tag = <<>> THEN BOOLEAN ELSE {f.cell \in prov[f.tag].ls}) :
                calls' = Append(calls, [call |-> nclose, i |-> cpc, f |-> f, ok |-> ok])
           /\ prov' = IF f.tag = <<>> THEN prov ELSE DeleteListener(prov, f.tag, f.cell)
    /\ cpc' = cpc + 1
    /\ UNCHANGED <<sets, cells, mg, nclose, rw, pc, loc, installed, ncalls, succ,
                   added, ret>>

\* the loop of Close is over: return nil
CloseReturn ==
    /\ cpc = Len(mg.closer) + 1
    /\ cpc' = 0
    /\ ret' = [NoRet EXCEPT !.op = "GroupClose", !.val = nclose]
    /\ UNCHANGED <<sets, cells, mg, prov, calls, nclose, rw, pc, loc, installed,
                   ncalls, succ, added>>

NextGroup ==
    \/ \E b \in StaticLists : GrpBatchLoad(b)
    \/ GrpNewDynamicMatcher
    \/ \E c \in 1..Len(cells) : \E b \in GroupTexts : GrpUpdate(c, b)
    \/ \E x \in 1..Len(sets) : GrpAppend(SetMember(x))
    \/ \E c \in 1..Len(cells) : GrpAppend(CellMember(c))
    \/ \E mac \in GroupQueries : GrpMatch(mac)
    \/ GrpLen

SpecGroup == InitGroup /\ [][NextGroup]_vars

(***************************************************************************)
(* SpecClose: a group of one Static Set, closers of any kind registered    *)
(* through AppendCloser, and Close running beside Match and Len            *)
(***************************************************************************)

InitClose ==
    /\ sets = <<BatchLoad(NewMatcherMacs, <<Lit0055, LitPadded>>).macs>>
    /\ cells = <<>>
    /\ mg = GroupAppend(EmptyGroup, SetMember(1))
    /\ prov = NoProviders
    /\ calls = <<>>
    /\ cpc = 0
    /\ nclose = 0
    /\ rw = RWUnlocked
    /\ pc = [p \in Procs |-> "idle"]
    /\ loc = [p \in Procs |-> NoLoc]
    /\ installed = <<>>
    /\ ncalls = 0
    /\ succ = {}
    /\ added = {}
    /\ ret = NoRet

NextClose ==
    \/ GrpAppendCloser(OpaqueCloser(Len(mg.closer) + 1))
    \/ \E mac \in QueryAddrs : GrpMatch(mac)
    \/ GrpLen
    \/ CloseBegin
    \/ CloseInvoke
    \/ CloseReturn

SpecClose == InitClose /\ [][NextClose]_vars

(***************************************************************************)
(* SpecBatch: a DataManager with two providers, one call of                *)
(* BatchLoadMacProvider, the providers' content changes, and the Match,    *)
(* Len and Close of the group that was built                               *)
(***************************************************************************)

\* descriptors in a list, and Matchers on the heap
MaxDesc == 2
MaxHeap == 4

TagP1 == <<"p", "1">>
TagP2 == <<"p", "2">>
TagNone == <<"n", "o">>
ProviderTags == {TagP1, TagP2}

\* the descriptors: literals (one malformed) and references to the two
\* providers and to a provider that does not exist
Descs == {LitUpper, Lit0055, LitBadHex, ProviderPrefix \o TagP1, ProviderPrefix \o TagP2,
          ProviderPrefix \o TagNone}

\* all lists of at most n descriptors
RECURSIVE DescListsUpTo(_)
DescListsUpTo(n) ==
    IF n = 0 THEN {<<>>}
    ELSE LET shorter == DescListsUpTo(n - 1)
         IN  shorter \cup {Append(e, s) : e \in shorter, s \in Descs}
DescLists == DescListsUpTo(MaxDesc)

\* the bytes a provider's data changes to
ProviderTexts == {TextA, TextB, TextBad5}

InitBatch ==
    /\ sets = <<>>
    /\ cells = <<>>
    /\ mg = NoGroup
    /\ prov = [tag \in ProviderTags |->
                  [d |-> IF tag = TagP1 THEN TextA ELSE TextB, ls |-> {}]]
    /\ calls = <<>>
    /\ cpc = 0
    /\ nclose = 0
    /\ rw = RWUnlocked
    /\ pc = [p \in Procs |-> "idle"]
    /\ loc = [p \in Procs |-> NoLoc]
    /\ installed = <<>>
    /\ ncalls = 0
    /\ succ = {}
    /\ added = {}
    /\ ret = NoRet

\* mg, err := BatchLoadMacProvider(e, dm), called once
Construct(e) ==
    /\ ncalls = 0
    /\ ncalls' = 1
    /\ \E r \in {BatchLoadMacProvider([sets |-> sets, cells |-> cells], prov, e)} :
          /\ sets' = r.sets
          /\ cells' = r.cells
          /\ prov' = r.prov
          /\ mg' = r.mg
          /\ ret' = [NoRet EXCEPT !.op = "BatchLoadMacProvider", !.err = r.err,
                                  !.lit = e]
    /\ UNCHANGED <<calls, cpc, nclose, rw, pc, loc, installed, succ, added>>

\* the data of provider tag changes to b, and its listeners are notified
ProviderChange(tag, b) ==
    /\ Len(sets) + Cardinality(prov[tag].ls) <= MaxHeap
    /\ prov[tag].d # b
    /\ prov' = [prov EXCEPT ![tag].d = b]
    /\ \E h \in {NotifyListeners([sets |-> sets, cells |-> cells], prov[tag].ls, b)} :
          /\ sets' = h.sets
          /\ cells' = h.cells
    /\ ret' = [NoRet EXCEPT !.op = "ProviderChange", !.lit = tag]
    /\ UNCHANGED <<mg, calls, cpc, nclose, rw, pc, loc, installed, ncalls, succ, added>>

NextBatch ==
    \/ \E e \in DescLists : Construct(e)
    \/ \E tag \in ProviderTags : \E b \in ProviderTexts : ProviderChange(tag, b)
    \/ \E mac \in QueryAddrs : GrpMatch(mac)
    \/ GrpLen
    \/ CloseBegin
    \/ CloseInvoke
    \/ CloseReturn

SpecBatch == InitBatch /\ [][NextBatch]_vars

(***************************************************************************)
(* SpecText: ParseTextMacFile on text batches put together from lines      *)
(***************************************************************************)

\* lines in a text batch
MaxLines == 3

\* a comment line that fills the scanner's buffer: "#xx...x"
LongComment == [i \in 1..MaxScanTokenSize |-> IF i = 1 THEN "#" ELSE "x"]

\* the lines a batch is put together from: 1 an upper-case literal, 2 a
\* literal in white space with a carriage return, 3 an empty line, 4 white
\* space, 5 an indented comment, 6 a literal of 5 bytes, 7 a literal
\* followed by a comment, 8 the long comment
TextLine(k) ==
    CASE k = 1 -> LitUpper
      [] k = 2 -> <<" ">> \o Lit0055 \o <<"\t", "\r">>
      [] k = 3 -> <<>>
      [] k = 4 -> <<" ", "\t">>
      [] k = 5 -> <<" ", "#">> \o Lit5Bytes
      [] k = 6 -> Lit5Bytes
      [] k = 7 -> Lit0055 \o <<" ", "#", "c">>
      [] k = 8 -> LongComment
LineKinds == 1..8

\* all lists of at most n lines
RECURSIVE KindListsUpTo(_)
KindListsUpTo(n) ==
    IF n = 0 THEN {<<>>}
    ELSE LET shorter == KindListsUpTo(n - 1)
         IN  shorter \cup {Append(ks, k) : ks \in shorter, k \in LineKinds}
KindLists == KindListsUpTo(MaxLines)

\* the bytes of the batch: the lines ks with "\n" between them, and a final
\* "\n" when nl
TextOf(ks, nl) ==
    Join([i \in 1..Len(ks) |-> TextLine(ks[i])], <<"\n">>)
        \o (IF nl THEN <<"\n">> ELSE <<>>)

\* a caller holds the lines ks of a batch, with a final "\n" when nl
InitText ==
    /\ sets = <<>>
    /\ cells = <<>>
    /\ mg = NoGroup
    /\ prov = NoProviders
    /\ calls = <<>>
    /\ cpc = 0
    /\ nclose = 0
    /\ rw = RWUnlocked
    /\ pc = [p \in Procs |-> "idle"]
    /\ loc = [p \in Procs |-> NoLoc]
    /\ installed = <<>>
    /\ ncalls = 0
    /\ succ = {}
    /\ added = {}
    /\ \E ks \in KindLists : \E nl \in BOOLEAN :
          ret = [NoRet EXCEPT !.op = "batch", !.lit = [lines |-> ks, nl |-> nl]]

\* m, err := ParseTextMacFile(in) for the batch the caller holds
ParseText ==
    /\ ret.op = "batch"
    /\ \E r \in {ParseTextMacFile(TextOf(ret.lit.lines, ret.lit.nl))} :
          /\ sets' = IF r.ok THEN <<r.macs>> ELSE <<>>
          /\ ret' = [ret EXCEPT !.op = "ParseTextMacFile",
                                !.err = r.err, !.val = r.line,
                                !.m = IF r.ok THEN 1 ELSE 0]
    /\ UNCHANGED <<cells, grpVars, rw, pc, loc, installed, ncalls, succ, added>>

NextText == ParseText

SpecText == InitText /\ [][NextText]_vars

(***************************************************************************)
(* Claims about text batches (SpecText)                                    *)
(***************************************************************************)

\* what the lines are, written out by hand: the lines to skip, and the
\* addresses of the lines that are valid literals; every other line is
\* malformed
SkippedKinds == {3, 4, 5, 8}
KindAddr(k) == IF k = 1 THEN AddrAF ELSE Addr0055
ValidKinds == {1, 2}

\* the number of the first malformed line of ks, 0 when there is none
FirstMalformed(ks) ==
    LET bad == {i \in 1..Len(ks) : ks[i] \notin SkippedKinds \cup ValidKinds}
    IN  IF bad = {} THEN 0 ELSE CHOOSE i \in bad : \A j \in bad : i <= j

\* what C11 promises of the call that returned ret
ParsedAsPromised ==
    LET ks == ret.lit.lines
    IN  IF FirstMalformed(ks) # 0
        THEN ret.err # "" /\ ret.val = FirstMalformed(ks) /\ ret.m = 0
        ELSE /\ ret.err = "" /\ ret.m # 0
             /\ sets[ret.m] = {KindAddr(ks[i]) : i \in {j \in 1..Len(ks) : ks[j] \in ValidKinds}}

\* C11: ParseTextMacFile skips empty lines, white space and comment lines;
\* at the first other line that is no valid literal it returns no Matcher
\* and an error with the number of that line; without such a line it
\* returns the Matcher of exactly the addresses of the valid lines.
C11_SkipsFailsAndCollects ==
    ret.op = "ParseTextMacFile" => ParsedAsPromised

\* C11 for the batches without the long comment line
C11_ShortLines ==
    (ret.op = "ParseTextMacFile" /\ \A i \in 1..Len(ret.lit.lines) : ret.lit.lines[i] # 8)
    => ParsedAsPromised

(***************************************************************************)
(* Claims about the Matcher Group (SpecGroup)                              *)
(***************************************************************************)

\* some member of the group matches mac
SomeMemberMatches(mac) == \E i \in 1..Len(mg.g) : MemberMatch(mg.g[i], mac)

\* the members in the opposite order
Reverse(g) == [i \in 1..Len(g) |-> g[Len(g) + 1 - i]]

\* C7: the group's Match is true exactly when some member's Match is true,
\* for every address, in the order the members were appended and in the
\* opposite order; it is false for a group without members; and every Match
\* call has returned that value.
C7_GroupMatchIffSomeMember ==
    /\ \A mac \in GroupQueries :
          /\ GroupMatch(mg.g, mac) = SomeMemberMatches(mac)
          /\ GroupMatch(Reverse(mg.g), mac) = GroupMatch(mg.g, mac)
          /\ mg.g = <<>> => ~GroupMatch(mg.g, mac)
    /\ ret.op = "GroupMatch" => ret.val = SomeMemberMatches(ret.mac)

\* C7 witness: Match(aa:bb:cc:dd:ee:ff) has returned true on a group whose
\* first member, a Static Set, does not hold the address and whose second
\* member, a populated cell, does
C7_Witness ==
    /\ ret.op = "GroupMatch" /\ ret.mac = AddrAF /\ ret.val = TRUE
    /\ Len(mg.g) = 2
    /\ mg.g[1].kind = "set" /\ AddrAF \notin sets[mg.g[1].id]
    /\ mg.g[2].kind = "cell" /\ cells[mg.g[2].id] # 0
    /\ AddrAF \in sets[cells[mg.g[2].id]]

\* C8: an address that is not 6 bytes long matches no Static Set, no cell
\* (empty or populated) and not the group, and every Match call with such
\* an address has returned false.
C8_WrongLengthNeverMatches ==
    /\ \A mac \in GroupQueries :
          Len(mac) # 6
          => /\ \A x \in 1..Len(sets) : MatcherMatch(sets[x], mac) = FALSE
             /\ \A c \in 1..Len(cells) : DynMatchResult(cells[c], mac) = FALSE
             /\ GroupMatch(mg.g, mac) = FALSE
    /\ (ret.op = "GroupMatch" /\ Len(ret.mac) # 6) => ret.val = FALSE

\* C8 witness: Match has returned false for the 8-byte address
\* 00:11:22:33:44:55:66:77 on a group of a Static Set that holds
\* 00:11:22:33:44:55 and of a populated cell
C8_Witness ==
    /\ ret.op = "GroupMatch" /\ ret.mac = Addr0055 \o <<102, 119>> /\ ret.val = FALSE
    /\ Len(mg.g) = 2
    /\ mg.g[1].kind = "set" /\ Addr0055 \in sets[mg.g[1].id]
    /\ mg.g[2].kind = "cell" /\ cells[mg.g[2].id] # 0

\* the addresses a member holds: the map of a Static Set, the snapshot of a
\* cell, nothing for an empty cell
MemberAddrs(mem) ==
    IF mem.kind = "set" THEN sets[mem.id]
    ELSE IF cells[mem.id] = 0 THEN {} ELSE sets[cells[mem.id]]

\* the distinct addresses the members hold
GroupAddrs == UNION {MemberAddrs(mg.g[j]) : j \in 1..Len(mg.g)}

\* the addresses of the members, each with the position of a member that
\* holds it: an address in k members is in it k times
AddrsByMember ==
    {p \in (1..Len(mg.g)) \X GroupAddrs : p[2] \in MemberAddrs(mg.g[p[1]])}

\* C12: the group's Len counts every address once for each member that
\* holds it, which is at least the number of distinct addresses in the
\* members; and every Len call has returned that count.
C12_GroupLenIsSum ==
    /\ GroupLen(mg.g) = Cardinality(AddrsByMember)
    /\ GroupLen(mg.g) >= Cardinality(GroupAddrs)
    /\ ret.op = "GroupLen" => ret.val = Cardinality(AddrsByMember)

\* C12 witness: Len has returned 3 for a group of a Static Set with two
\* addresses and a cell that holds one of the two
C12_Witness ==
    /\ ret.op = "GroupLen" /\ ret.val = 3
    /\ Len(mg.g) = 2
    /\ mg.g[1].kind = "set" /\ sets[mg.g[1].id] = {Addr0055, AddrAF}
    /\ mg.g[2].kind = "cell" /\ cells[mg.g[2].id] # 0
    /\ sets[cells[mg.g[2].id]] = {Addr0055}

(***************************************************************************)
(* Claims about Close (SpecClose)                                          *)
(***************************************************************************)

\* the closer invocations of the k-th Close call, in the order they were made
CallsOf(k) == SelectSeq(calls, LAMBDA c : c.call = k)

\* C4: the invocations of every Close call are the closers 1, 2, ... in
\* registration order, each once, whatever became of the earlier ones; a
\* Close that is running, with Match and Len calls in between, has invoked
\* the closers before its position; and a Close that has returned has
\* invoked all of them.
C4_CloseInvokesEveryCloser ==
    /\ \A k \in 1..nclose :
          \A j \in 1..Len(CallsOf(k)) :
              /\ j <= Len(mg.closer)
              /\ CallsOf(k)[j].i = j
              /\ CallsOf(k)[j].f = mg.closer[j]
    /\ cpc # 0 => Len(CallsOf(nclose)) = cpc - 1
    /\ ret.op = "GroupClose" => Len(CallsOf(ret.val)) = Len(mg.closer)

\* C4 witness: the first Close has invoked all three closers although the
\* side effect of the first one failed, and a Match call has returned while
\* the second Close was between its first and its second closer
C4_Witness ==
    /\ Len(mg.closer) = 3
    /\ Len(CallsOf(1)) = 3 /\ CallsOf(1)[1].ok = FALSE
    /\ nclose = 2 /\ cpc = 2
    /\ ret.op = "GroupMatch"

\* C18: over all Close calls on the group no closer is invoked more than
\* once: a Close after the first invokes nothing.
C18_SecondCloseInvokesNothing ==
    \A i \in 1..Len(mg.closer) :
        Cardinality({j \in 1..Len(calls) : calls[j].i = i}) <= 1

(***************************************************************************)
(* Claims about BatchLoadMacProvider (SpecBatch)                           *)
(***************************************************************************)

\* C3: when BatchLoadMacProvider has returned "cannot find provider", no
\* group was returned and no cell is on the listeners of any provider.
C3_FailedConstructionDeregisters ==
    (ret.op = "BatchLoadMacProvider" /\ ret.err = "cannot find provider")
    => /\ mg.nil
       /\ \A tag \in ProviderTags : prov[tag].ls = {}

\* what is wrong with descriptor d at the moment of the call, written out by
\* hand ("" for nothing): a literal that is no address, a provider that does
\* not exist, a provider whose data do not parse
DescFault(d) ==
    CASE d = LitBadHex -> "failed to load data"
      [] d = ProviderPrefix \o TagNone -> "cannot find provider"
      [] d = ProviderPrefix \o TagP1 /\ prov[TagP1].d = TextBad5
           -> "failed to load data from provider"
      [] d = ProviderPrefix \o TagP2 /\ prov[TagP2].d = TextBad5
           -> "failed to load data from provider"
      [] OTHER -> ""

\* the position of the first descriptor of e with a fault, 0 for none
FirstFault(e) ==
    LET bad == {i \in 1..Len(e) : DescFault(e[i]) # ""}
    IN  IF bad = {} THEN 0 ELSE CHOOSE i \in bad : \A j \in bad : i <= j

\* C13: when a literal descriptor is no address or the data of a referenced
\* provider do not parse, at whatever position, BatchLoadMacProvider
\* returns the error of the first faulty descriptor and no group; it
\* returns a group exactly when it returns no error.
C13_ConstructionFailsWhole ==
    ret.op = "BatchLoadMacProvider"
    => /\ mg.nil = (ret.err # "")
       /\ FirstFault(ret.lit) # 0
          => (mg.nil /\ ret.err = DescFault(ret.lit[FirstFault(ret.lit)]))
       /\ FirstFault(ret.lit) = 0 => (~mg.nil /\ ret.err = "")

\* C13 witness: the construction from a valid literal and "provider:p1" has
\* failed at the second descriptor, the data of p1 being a 5-byte line
C13_Witness ==
    /\ ret.op = "BatchLoadMacProvider"
    /\ ret.lit = <<LitUpper, ProviderPrefix \o TagP1>>
    /\ prov[TagP1].d = TextBad5
    /\ ret.err = "failed to load data from provider"
    /\ mg.nil

\* the provider tags the descriptors of e name, in order, written out by hand
NamedTags(e) ==
    LET tagOf(d) == IF d = <<"p", "r", "o", "v", "i", "d", "e", "r", ":", "p", "1">>
                    THEN TagP1 ELSE TagP2
    IN  [i \in 1..Len(SelectSeq(e, LAMBDA d : Len(d) > 0 /\ d[1] = "p")) |->
            tagOf(SelectSeq(e, LAMBDA d : Len(d) > 0 /\ d[1] = "p")[i])]

\* the addresses of the literal descriptors of e, written out by hand
LiteralAddrs(e) ==
    {AddrAF : i \in {j \in 1..Len(e) : e[j] = LitUpper}}
        \cup {Addr0055 : i \in {j \in 1..Len(e) : e[j] = Lit0055}}

C19_SetsNeverMutated ==
    [][/\ \A x \in 1..Len(sets) : x <= Len(sets') /\ sets'[x] = sets[x]
       /\ \A c \in 1..Len(cells) :
             cells'[c] # cells[c]
             => (cells'[c] > Len(sets) /\ cells'[c] <= Len(sets'))
       /\ ~mg.nil => mg' = mg]_vars

\* C19 witness: after a change of p1 the cell of p1 holds a new Matcher,
\* the one it held before is as it was, and so is the Static Set
C19_Witness ==
    /\ ret.op = "ProviderChange" /\ ret.lit = TagP1
    /\ ~mg.nil /\ Len(mg.g) = 2 /\ mg.g[2].id = 1
    /\ sets = <<{AddrAF}, {AddrAF}, {Addr0055}>>
    /\ cells[1] = 3

\* the closers a Close call has not invoked yet, none being left after the
\* first Close
PendingClosers ==
    IF nclose = 0 THEN 1..Len(mg.closer)
    ELSE IF nclose = 1 /\ cpc # 0 THEN cpc..Len(mg.closer)
    ELSE {}

\* the set a valid text batch of ProviderTexts stands for, written out by hand
TextMacs(b) == IF b = TextA THEN {AddrAF} ELSE {Addr0055}

\* C5: a construction that worked returns one cell and one closer for each
\* provider descriptor, the closer naming that cell and the provider of
\* that descriptor; until its closer runs a cell is on the listeners of
\* that provider and of no other, and holds the provider's data whenever
\* the data parse; each closer takes its own cell off its own provider, so
\* that no listener is left when Close has returned.
C5_ListenersFollowClosers ==
    /\ (ret.op = "BatchLoadMacProvider" /\ ret.err = "")
       => /\ Len(mg.closer) = Len(NamedTags(ret.lit))
          /\ Len(mg.g) = Len(mg.closer) + 1
          /\ \A i \in 1..Len(mg.closer) :
                /\ mg.closer[i] = [tag |-> NamedTags(ret.lit)[i], cell |-> i]
                /\ mg.g[i + 1] = [kind |-> "cell", id |-> i]
    /\ ~mg.nil
       => /\ \A tag \in ProviderTags :
                prov[tag].ls = {mg.closer[i].cell :
                                   i \in {j \in PendingClosers : mg.closer[j].tag = tag}}
          /\ \A tag \in ProviderTags : \A c \in prov[tag].ls :
                prov[tag].d \in {TextA, TextB}
                => (cells[c] # 0 /\ sets[cells[c]] = TextMacs(prov[tag].d))
          /\ (nclose >= 1 /\ cpc = 0) => \A tag \in ProviderTags : prov[tag].ls = {}

\* C5 witness: Close has returned on the group of "provider:p1" and
\* "provider:p2", no listener is left, and the cell of p1 holds
\* 00:11:22:33:44:55, which p1 changed to after the construction
C5_Witness ==
    /\ ret.op = "GroupClose"
    /\ mg.closer = <<[tag |-> TagP1, cell |-> 1], [tag |-> TagP2, cell |-> 2]>>
    /\ Len(calls) = 2 /\ calls[1].ok /\ calls[2].ok
    /\ \A tag \in ProviderTags : prov[tag].ls = {}
    /\ sets[cells[1]] = {Addr0055}
    /\ Len(sets) = 4

====
